---------------------------- MODULE Spec2Model ----------------------------
(***************************************************************************)
(* dmtools: the Netpbm codec (netpbm.py), the depth reduction              *)
(* (Netpbm.set_max_color_value), the ASCII-art conversion and the glyph    *)
(* renderer (ascii.py).                                                    *)
(*                                                                         *)
(* Files and strings are sequences of byte values.  A NumPy array is a     *)
(* record [shape, data]: the shape tuple and the flat row-major buffer.    *)
(* A raised Python exception is the record [exc |-> <its class>].          *)
(***************************************************************************)
EXTENDS Integers, Sequences, FiniteSets, TLC

VARIABLES
    img,      \* the Netpbm object under operation: [P, k, h, w, M]
    files,    \* path -> contents of the file (a byte sequence) or NoFile
    tag,      \* path -> who wrote the file last, and how
    dec,      \* path -> what read_netpbm returned or raised for the file, or Nothing
    wrote,    \* outcome of the last to_netpbm call: Nothing, "ok", or an exception
    hist,     \* the transform calls made on img so far: <<[op, arg, before, after, ret]>>
    atlas,    \* CHAR_TO_IMG of ascii.py: <<[ch, im]>> in palette order, or an exception
    grid,     \* the Ascii image handed to write(): an array of characters, or Nothing
    rendered  \* what write(ascii, path, "png") built: a raster, an exception, or Nothing

vars == <<img, files, tag, dec, wrote, hist, atlas, grid, rendered>>

-----------------------------------------------------------------------------
(* Bounds of the model *)

MaxH == 2
MaxW == 2
MaxK == 2
MaxDrop == 2
MaxCalls == 2
MaxTarget == 3
MaxGray == 12
MaxRows == 2
MaxCols == 2
MaxGlyphH == 1
MaxGlyphW == 2

-----------------------------------------------------------------------------
(* Characters *)

NL == 10
SP == 32
HASH == 35
CH_P == 80
CH_0 == 48

Nothing == [none |-> TRUE]
NoFile == [nofile |-> TRUE]
Err(t) == [exc |-> t]
IsErr(x) == DOMAIN x = {"exc"}

IsDigit(c) == c \in CH_0 .. (CH_0 + 9)
\* the ASCII characters str.split() and int() treat as whitespace
IsSpace(c) == c \in {9, 10, 11, 12, 13, 28, 29, 30, 31, 32}

RECURSIVE Digits(_)
Digits(n) == IF n < 10 THEN <<CH_0 + n>> ELSE Digits(n \div 10) \o <<CH_0 + (n % 10)>>

\* '%d' % n, '%s' % n, str(n) of an int
str(n) == IF n < 0 THEN <<45>> \o Digits(0 - n) ELSE Digits(n)

RECURSIVE DigitsValue(_)
DigitsValue(s) == IF s = <<>> THEN 0 ELSE 10 * DigitsValue(SubSeq(s, 1, Len(s) - 1)) + (s[Len(s)] - CH_0)

RECURSIVE lstrip(_)
lstrip(s) == IF s # <<>> /\ IsSpace(Head(s)) THEN lstrip(Tail(s)) ELSE s

RECURSIVE rstrip(_)
rstrip(s) == IF s # <<>> /\ IsSpace(s[Len(s)]) THEN rstrip(SubSeq(s, 1, Len(s) - 1)) ELSE s

\* int(s) of a str: surrounding whitespace, an optional sign, decimal digits
int(s) ==
    LET t == rstrip(lstrip(s))
        signed == t # <<>> /\ Head(t) \in {45, 43}    \* '-', '+'
        d == IF signed THEN Tail(t) ELSE t
    IN  IF d = <<>> \/ \E i \in 1..Len(d) : ~IsDigit(d[i]) THEN Err("ValueError")
        ELSE [val |-> IF signed /\ Head(t) = 45 THEN 0 - DigitsValue(d) ELSE DigitsValue(d)]

\* bytes.decode(): the text of an ASCII byte string; other bytes are not modelled
\* as text and raise
decode(b) == IF \E i \in 1..Len(b) : b[i] >= 128 THEN Err("UnicodeDecodeError") ELSE [val |-> b]

\* index of the first element of s in set C, or Len(s) + 1
First(s, C) == IF \E i \in 1..Len(s) : s[i] \in C
               THEN CHOOSE i \in 1..Len(s) : s[i] \in C /\ \A j \in 1..(i - 1) : s[j] \notin C
               ELSE Len(s) + 1

RECURSIVE split_on(_, _)
\* the pieces of s between the separators of C
split_on(s, C) ==
    LET i == First(s, C)
    IN  IF i > Len(s) THEN <<s>>
        ELSE <<SubSeq(s, 1, i - 1)>> \o split_on(SubSeq(s, i + 1, Len(s)), C)

RECURSIVE split(_)
\* str.split(): the whitespace-separated words of s
split(s) ==
    LET t == lstrip(s)
        i == First(t, {c \in 0..127 : IsSpace(c)})
    IN  IF t = <<>> THEN <<>>
        ELSE <<SubSeq(t, 1, i - 1)>> \o split(SubSeq(t, i, Len(t)))

RECURSIVE Flatten(_)
Flatten(ss) == IF ss = <<>> THEN <<>> ELSE Head(ss) \o Flatten(Tail(ss))

RECURSIVE join(_, _)
\* sep.join(parts)
join(sep, parts) ==
    IF parts = <<>> THEN <<>>
    ELSE IF Len(parts) = 1 THEN parts[1]
    ELSE parts[1] \o sep \o join(sep, Tail(parts))

RECURSIVE Product(_)
Product(s) == IF s = <<>> THEN 1 ELSE Head(s) * Product(Tail(s))

-----------------------------------------------------------------------------
(* NumPy arrays *)

array(shape, data) == [shape |-> shape, data |-> data]
ndim(a) == Len(a.shape)
size(a) == Len(a.data)

\* a reshape that fills the shape by repeating the buffer, as np.resize does
reshape_unchecked(a, dims) ==
    array(dims, [i \in 1..Product(dims) |->
        IF size(a) = 0 THEN 0 ELSE a.data[((i - 1) % size(a)) + 1]])

\* a.reshape(dims): one dimension may be -1 and is then inferred; the sizes
\* must agree
reshape(a, dims) ==
    LET unknown == {i \in 1..Len(dims) : dims[i] = 0 - 1}
        known == Product([i \in 1..Len(dims) |-> IF i \in unknown THEN 1 ELSE dims[i]])
    IN  IF \E i \in 1..Len(dims) : dims[i] < 0 - 1 THEN Err("ValueError")
        ELSE IF Cardinality(unknown) > 1 THEN Err("ValueError")
        ELSE IF unknown = {}
             THEN IF known = size(a) THEN array(dims, a.data) ELSE Err("ValueError")
        ELSE IF known = 0 \/ size(a) % known # 0 THEN Err("ValueError")
        ELSE array([i \in 1..Len(dims) |-> IF i \in unknown THEN size(a) \div known ELSE dims[i]],
                   a.data)

\* the number of buffer elements under one index of the first axis
RowSize(a) == Product(Tail(a.shape))

\* a[i] (0-based i as in Python is i + 1 here): the i-th sub-array along the first axis
Row(a, i) == array(Tail(a.shape), SubSeq(a.data, (i - 1) * RowSize(a) + 1, i * RowSize(a)))

\* a.clip(lo, hi): minimum(maximum(x, lo), hi) of every element
clip(a, lo, hi) ==
    array(a.shape, [i \in 1..size(a) |->
        LET x == IF a.data[i] < lo THEN lo ELSE a.data[i]
        IN  IF x > hi THEN hi ELSE x])

-----------------------------------------------------------------------------
(* class Netpbm *)

\* Netpbm.__init__: h and w are the first two dimensions of M
Netpbm(P, k, M) ==
    IF ndim(M) < 2 THEN Err("ValueError")
    ELSE [P |-> P, k |-> k, h |-> M.shape[1], w |-> M.shape[2], M |-> M]

\* the text of one row of M.clip(0, k).astype(int).astype(str).tolist(), joined by ' '
RowText(row) == join(<<SP>>, [j \in 1..size(row) |-> str(row.data[j])])

\* a header that gives the height before the width
header_height_first(self) ==
    <<CH_P>> \o str(self.P) \o <<NL>>
    \o str(self.h) \o <<SP>> \o str(self.w) \o <<NL>>
    \o (IF self.P # 1 THEN str(self.k) \o <<NL>> ELSE <<>>)

\* the three header writes of to_netpbm: 'P%d\n', "%s %s\n" % (w, h), "%s\n" % k
header(self) ==
    <<CH_P>> \o str(self.P) \o <<NL>>
    \o str(self.w) \o <<SP>> \o str(self.h) \o <<NL>>
    \o (IF self.P # 1 THEN str(self.k) \o <<NL>> ELSE <<>>)

\* Netpbm.to_netpbm: [bytes |-> what the file holds when the with-block is left,
\*                    exc |-> "ok" or the exception that left it]
to_netpbm(self) ==
    LET head == header(self)
        M == IF self.P = 3 THEN reshape(self.M, <<self.h, self.w * 3>>) ELSE self.M
    IN  IF IsErr(M) THEN [bytes |-> head, exc |-> M.exc]
        ELSE IF ndim(M) > 2 THEN [bytes |-> head, exc |-> "TypeError"]
        ELSE LET C == clip(M, 0, self.k)
                 lines == [i \in 1..C.shape[1] |-> RowText(Row(C, i))]
             IN  [bytes |-> head \o join(<<NL>>, lines) \o <<NL>>, exc |-> "ok"]

\* vals of _parse_ascii_netpbm: the words of every line, up to its first '#'
Words(f) == Flatten([i \in 1..Len(f) |-> split(split_on(f[i], {HASH})[1])])

\* _parse_ascii_netpbm(f), f the lines of the file
parse_ascii_netpbm(f) ==
    LET vals == Words(f)
    IN  IF vals = <<>> \/ Len(vals[1]) < 2 THEN Err("IndexError")
        ELSE
        LET Pd == int(<<vals[1][2]>>)
            ints == [i \in 1..(Len(vals) - 1) |-> int(vals[i + 1])]
        IN  IF IsErr(Pd) THEN Pd
            ELSE IF \E i \in 1..Len(ints) : IsErr(ints[i]) THEN Err("ValueError")
            ELSE
            LET P == Pd.val
                nums == [i \in 1..Len(ints) |-> ints[i].val]
                nhead == IF P = 1 THEN 2 ELSE 3
            IN  IF Len(nums) < nhead THEN Err("ValueError")
                ELSE
                LET w == nums[1]
                    h == nums[2]
                    k == IF P = 1 THEN 1 ELSE nums[3]
                    flat == array(<<Len(nums) - nhead>>, SubSeq(nums, nhead + 1, Len(nums)))
                    M == IF P = 3 THEN reshape(flat, <<h, w, 3>>) ELSE reshape(flat, <<h, w>>)
                IN  IF IsErr(M) THEN M ELSE Netpbm(P, k, M)

\* f.readline() of a binary file at offset pos (1-based): the bytes up to and
\* with the next newline, or to the end of the file
readline(b, pos) ==
    LET rest == SubSeq(b, pos, Len(b))
        i == First(rest, {NL})
    IN  SubSeq(rest, 1, IF i > Len(rest) THEN Len(rest) ELSE i)

\* int(f.readline().decode()[:-1])
HeaderInt(line) ==
    LET s == decode(line)
    IN  IF IsErr(s) THEN s ELSE int(SubSeq(s.val, 1, Len(s.val) - 1))

\* _parse_binary_netpbm(path), b the bytes of the file
parse_binary_netpbm(b) ==
    LET l1 == readline(b, 1)
        s1 == decode(l1)
    IN  IF IsErr(s1) THEN s1
        ELSE IF Len(s1.val) < 2 THEN Err("IndexError")
        ELSE
        LET Pd == int(<<s1.val[2]>>)
        IN  IF IsErr(Pd) THEN Pd
            ELSE
            LET P == Pd.val \div 2
                l2 == readline(b, Len(l1) + 1)
                l3 == readline(b, Len(l1) + Len(l2) + 1)
                l4 == IF P = 1 THEN <<>> ELSE readline(b, Len(l1) + Len(l2) + Len(l3) + 1)
                w == HeaderInt(l2)
                h == HeaderInt(l3)
                k == IF P = 1 THEN [val |-> 1] ELSE HeaderInt(l4)
                body == SubSeq(b, Len(l1) + Len(l2) + Len(l3) + Len(l4) + 1, Len(b))
            IN  IF IsErr(w) THEN w
                ELSE IF IsErr(h) THEN h
                ELSE IF IsErr(k) THEN k
                ELSE
                LET flat == array(<<Len(body)>>, body)
                    M == IF P = 3 THEN reshape(flat, <<h.val, w.val, 3>>)
                         ELSE reshape(flat, <<h.val, w.val>>)
                IN  IF IsErr(M) THEN M ELSE Netpbm(P, k.val, M)

\* the lines a text-mode file yields: universal newlines end a line at \n and \r
TextLines(b) == split_on(b, {NL, 13})

\* read_netpbm(path), b the bytes of the file
read_netpbm(b) ==
    LET magic_number == decode(SubSeq(b, 1, 2))
    IN  IF IsErr(magic_number) THEN magic_number
        ELSE IF Len(magic_number.val) < 2 THEN Err("IndexError")
        ELSE
        LET d == int(<<magic_number.val[2]>>)
        IN  IF IsErr(d) THEN d
            ELSE IF d.val <= 3
                 THEN LET t == decode(b)
                      IN  IF IsErr(t) THEN t ELSE parse_ascii_netpbm(TextLines(t.val))
            ELSE parse_binary_netpbm(b)

-----------------------------------------------------------------------------
(* Inputs: the Netpbm objects a caller constructs and the files a producer
   other than to_netpbm leaves on disk *)

Min(a, b) == IF a < b THEN a ELSE b

\* maximum values tried: 1..MaxK, and 255 (the value ascii.py gives its rasters)
KValues == (1..MaxK) \cup {255}

\* n samples in 0..k: s0, s0 + st, s0 + 2 st, ... modulo k + 1
Pattern(n, k, s0, st) == [i \in 1..n |-> (s0 + st * (i - 1)) % (k + 1)]

Seeds(k) == {0, 1, k \div 2, k}
Strides(k) == {0, 1, k}

\* every sample buffer tried for n samples with maximum k
Buffers(n, k) == {Pattern(n, k, s0, st) : s0 \in Seeds(k), st \in Strides(k)}

Channels(P) == IF P = 3 THEN 3 ELSE 1
ShapeOf(P, h, w) == IF P = 3 THEN <<h, w, 3>> ELSE <<h, w>>

\* a Raster of the data model: kind 1..3, positive dimensions, k >= 1, a buffer
\* of height x width (x 3 for Color) samples, every sample in [0, k]
WellFormed(r) ==
    /\ r.P \in 1..3
    /\ r.h >= 1 /\ r.w >= 1 /\ r.k >= 1
    /\ r.M.shape = ShapeOf(r.P, r.h, r.w)
    /\ size(r.M) = r.h * r.w * Channels(r.P)
    /\ \A i \in 1..size(r.M) : r.M.data[i] \in 0..r.k

\* ... in which a Bitmap has the maximum value 1, the only one a Bitmap file
\* can stand for (its header has no maximum value)
Valid(r) == WellFormed(r) /\ (r.P = 1 => r.k = 1)

\* the well-formed rasters tried; the Bitmaps hold samples 0 and 1 whatever k is
WellFormedRasters ==
    UNION { UNION { UNION { { Netpbm(P, k, array(ShapeOf(P, h, w), d)) :
                                  d \in Buffers(h * w * Channels(P), IF P = 1 THEN 1 ELSE k) } :
                            k \in KValues } :
                    h \in 1..MaxH, w \in 1..MaxW } :
            P \in 1..3 }

\* objects whose buffer disagrees with the kind: a Color tag on a 2-D buffer, a
\* Bitmap or Grayscale tag on a 3-D one (the constructor checks nothing)
InconsistentRasters ==
    UNION { UNION { { Netpbm(P, k, array(ShapeOf(4 - Min(P, 2), h, w), d)) :
                          d \in Buffers(h * w * Channels(4 - Min(P, 2)), k) } :
                    h \in 1..MaxH, w \in 1..MaxW, k \in {255} } :
            P \in 1..3 }

Paths == {"plain", "raw"}
File(b) == [bytes |-> b]
Ok == [ok |-> TRUE]

\* the first two bytes of files that carry no magic number P1..P6
BadMagics == {<<CH_P, CH_0>>, <<CH_P, CH_0 + 7>>, <<CH_P, CH_0 + 9>>, <<88, CH_0 + 2>>,
              <<CH_P, CH_P>>, <<>>}

\* a plain (ASCII) file of the wire format: magic, a comment line, width and
\* height, the maximum value unless Bitmap, then the sample tokens one per line
PlainFile(magic, r, samples) ==
    magic \o <<NL, HASH, SP, CH_0 + 7, NL>>
    \o str(r.w) \o <<SP>> \o str(r.h) \o <<SP, HASH, CH_0 + 1, NL>>
    \o (IF r.P # 1 THEN str(r.k) \o <<NL>> ELSE <<>>)
    \o Flatten([i \in 1..Len(samples) |-> str(samples[i]) \o <<NL>>])

\* a raw (binary) file of the wire format: magic, width, height and (unless
\* Bitmap) the maximum value each on a line of its own, then one byte a sample
RawFile(magic, r, samples) ==
    magic \o <<NL>> \o str(r.w) \o <<NL>> \o str(r.h) \o <<NL>>
    \o (IF r.P # 1 THEN str(r.k) \o <<NL>> ELSE <<>>)
    \o samples

PlainMagic(r) == <<CH_P, CH_0 + r.P>>
RawMagic(r) == <<CH_P, CH_0 + r.P + 3>>

-----------------------------------------------------------------------------
(* The codec: writing and reading files *)

InitCodec ==
    /\ img \in WellFormedRasters \cup InconsistentRasters
    /\ files = [p \in Paths |-> NoFile]
    /\ tag = [p \in Paths |-> "none"]
    /\ dec = [p \in Paths |-> Nothing]
    /\ wrote = Nothing
    /\ hist = <<>>
    /\ atlas = Nothing
    /\ grid = Nothing
    /\ rendered = Nothing

\* the model holds one malformed file at a time, and then no other file
Malformed == \E q \in Paths : tag[q] \in {"truncated", "badmagic"}

\* img.to_netpbm("plain")
ToNetpbm ==
    /\ wrote = Nothing
    /\ ~Malformed
    /\ LET res == to_netpbm(img)
       IN  /\ files' = [files EXCEPT !["plain"] = File(res.bytes)]
           /\ wrote' = IF res.exc = "ok" THEN Ok ELSE Err(res.exc)
           /\ tag' = [tag EXCEPT !["plain"] = IF res.exc = "ok" THEN "to_netpbm" ELSE "partial"]
    /\ dec' = [dec EXCEPT !["plain"] = Nothing]
    /\ UNCHANGED <<img, hist, atlas, grid, rendered>>

\* another producer writes the image img holds as a plain or a raw file
ProduceFull(p) ==
    /\ Valid(img)
    /\ tag[p] = "none"
    /\ ~Malformed
    /\ files' = [files EXCEPT ![p] =
           File(IF p = "plain" THEN PlainFile(PlainMagic(img), img, img.M.data)
                ELSE RawFile(RawMagic(img), img, img.M.data))]
    /\ tag' = [tag EXCEPT ![p] = "full"]
    /\ dec' = [dec EXCEPT ![p] = Nothing]
    /\ UNCHANGED <<img, wrote, hist, atlas, grid, rendered>>

\* ... with the last n samples missing from the body
ProduceTruncated(p, n) ==
    /\ Valid(img)
    /\ \A q \in Paths : tag[q] = "none"
    /\ n \in 1..Min(size(img.M), MaxDrop)
    /\ LET kept == SubSeq(img.M.data, 1, size(img.M) - n)
       IN  files' = [files EXCEPT ![p] =
               File(IF p = "plain" THEN PlainFile(PlainMagic(img), img, kept)
                    ELSE RawFile(RawMagic(img), img, kept))]
    /\ tag' = [tag EXCEPT ![p] = "truncated"]
    /\ dec' = [dec EXCEPT ![p] = Nothing]
    /\ UNCHANGED <<img, wrote, hist, atlas, grid, rendered>>

\* ... with something else than its magic number in front
ProduceBadMagic(p, magic) ==
    /\ Valid(img)
    /\ \A q \in Paths : tag[q] = "none"
    /\ files' = [files EXCEPT ![p] =
           File(IF p = "plain" THEN PlainFile(magic, img, img.M.data)
                ELSE RawFile(magic, img, img.M.data))]
    /\ tag' = [tag EXCEPT ![p] = "badmagic"]
    /\ dec' = [dec EXCEPT ![p] = Nothing]
    /\ UNCHANGED <<img, wrote, hist, atlas, grid, rendered>>

\* read_netpbm(p)
ReadNetpbm(p) ==
    /\ files[p] # NoFile
    /\ dec[p] = Nothing
    /\ dec' = [dec EXCEPT ![p] = read_netpbm(files[p].bytes)]
    /\ UNCHANGED <<img, files, tag, wrote, hist, atlas, grid, rendered>>

NextCodec ==
    \/ ToNetpbm
    \/ \E p \in Paths : ProduceFull(p)
    \/ \E p \in Paths, n \in 1..MaxDrop : ProduceTruncated(p, n)
    \/ \E p \in Paths, magic \in BadMagics : ProduceBadMagic(p, magic)
    \/ \E p \in Paths : ReadNetpbm(p)

SpecCodec == InitCodec /\ [][NextCodec]_vars

-----------------------------------------------------------------------------
(* Properties of the codec *)

\* C1 as claimed: round trip.  For every kind and every Raster img of
\* height x width samples (x 3 for Color), all in [0, max_value], reading back
\* the file that img.to_netpbm wrote gives a Raster equal to img in kind,
\* width, height, max_value and every sample.
C1_RoundTripAsClaimed ==
    (WellFormed(img) /\ tag["plain"] = "to_netpbm" /\ dec["plain"] # Nothing)
        => dec["plain"] = img

\* C1 as amended: round trip through the plain encoding, the one to_netpbm
\* writes.  For every Grayscale or Color Raster, and every Bitmap Raster whose
\* max_value is 1, with samples in [0, max_value], reading back the file that
\* img.to_netpbm wrote gives a Raster equal to img in kind, width, height,
\* max_value and every sample.
C1_RoundTrip ==
    (Valid(img) /\ tag["plain"] = "to_netpbm" /\ dec["plain"] # Nothing)
        => dec["plain"] = img

\* a Color raster of two rows and one column with a three-digit sample has
\* been written and read back
C1_Witness ==
    /\ Valid(img) /\ img.P = 3 /\ img.h = 2 /\ img.w = 1 /\ img.k = 255
    /\ \E i \in 1..size(img.M) : img.M.data[i] >= 100
    /\ wrote = Ok
    /\ tag["plain"] = "to_netpbm"
    /\ dec["plain"] = img

\* C2: cross-encoding equivalence.  Decoding the raw file (P4, P5, P6) and
\* decoding the plain file (P1, P2, P3) of the same image give identical
\* Rasters: same kind, width, height, max_value and samples.
C2_CrossEncoding ==
    (/\ tag["plain"] \in {"full", "to_netpbm"} /\ dec["plain"] # Nothing
     /\ tag["raw"] = "full" /\ dec["raw"] # Nothing
     /\ Valid(img))
        => (~IsErr(dec["raw"]) /\ dec["raw"] = dec["plain"])

\* C5: decode rejects an unrecognized magic number.  A file whose first two
\* bytes are not one of P1..P6 (or that has no magic number) makes
\* read_netpbm fail; it never returns a Raster.
C5_RejectsBadMagic ==
    \A p \in Paths : (tag[p] = "badmagic" /\ dec[p] # Nothing) => IsErr(dec[p])

\* C6: decode rejects truncated sample data.  A plain or raw file with a valid
\* header whose body holds fewer sample tokens or bytes than
\* width * height * channels makes read_netpbm fail; it never returns a Raster.
C6_RejectsTruncated ==
    \A p \in Paths : (tag[p] = "truncated" /\ dec[p] # Nothing) => IsErr(dec[p])

\* a truncated file of a Grayscale image of more than one sample has been read
\* and refused
C6_Witness ==
    \E p \in Paths :
        /\ tag[p] = "truncated"
        /\ img.P = 2 /\ size(img.M) > 1
        /\ IsErr(dec[p])

\* C7: no partial write on encode.  Whenever to_netpbm ends with an error (the
\* buffer of the Raster disagrees with its kind and dimensions), the file it
\* was writing is empty: never a header without its body.
C7_NoPartialWrite ==
    IsErr(wrote) => files["plain"] = File(<<>>)

-----------------------------------------------------------------------------
(* Depth reduction and the ASCII-art conversion *)

\* x // step of NumPy integers: floor division, and 0 (with a RuntimeWarning)
\* when step is 0
floor_divide(x, step) == IF step = 0 THEN 0 ELSE x \div step

\* the k == 1 branch: ((M / self.k) > 0.5).astype(int)
threshold(M, k) == array(M.shape, [i \in 1..size(M) |-> IF 2 * M.data[i] > k THEN 1 ELSE 0])

\* a set_max_color_value that hands back one row of samples whatever the shape was
set_max_color_value_flat(self, k) ==
    [self EXCEPT !.M = array(<<1, size(self.M)>>, self.M.data)]

\* Netpbm.set_max_color_value(self, k): self as the call leaves it.  The method
\* assigns self.M only: `self.P == 1` is a comparison and self.k is not touched.
set_max_color_value(self, k) ==
    IF k = 1
    THEN [self EXCEPT !.M = threshold(self.M, self.k)]
    ELSE LET step == self.k \div k
         IN  [self EXCEPT !.M = array(self.M.shape,
                 [i \in 1..size(self.M) |-> floor_divide(self.M.data[i], step)])]

\* netpbm.change_gradient(image, k): sets the maximum value of the image it is
\* given and returns that image
change_gradient(image, k) == set_max_color_value(image, k)

\* chars of netpbm_to_ascii: "  -~:;=!*#$@"
chars == <<32, 32, 45, 126, 58, 59, 61, 33, 42, 35, 36, 64>>

\* chars[i] of Python, i an int: negative i counts from the end
char_at(i) ==
    IF i >= Len(chars) \/ i < 0 - Len(chars) THEN Err("IndexError")
    ELSE [val |-> chars[(IF i < 0 THEN i + Len(chars) ELSE i) + 1]]

\* netpbm_to_ascii(image): [image |-> image as the call leaves it,
\*                          ret |-> the Ascii it returns, or the exception]
netpbm_to_ascii(image) ==
    LET g == change_gradient(image, Len(chars) - 1)
        M == g.M
        cs == [i \in 1..size(M) |-> char_at(M.data[i])]
    IN  [image |-> g,
         ret |-> IF ndim(M) # 2 THEN Err("TypeError")
                 ELSE IF \E i \in 1..size(M) : IsErr(cs[i]) THEN Err("IndexError")
                 ELSE [M |-> array(M.shape, [i \in 1..size(M) |-> cs[i].val])]]

\* every Grayscale raster of one pixel with maximum value up to MaxGray
OnePixelRasters ==
    UNION { { Netpbm(2, k, array(<<1, 1>>, <<x>>)) : x \in 0..k } : k \in 1..MaxGray }

InitQuant ==
    /\ img \in WellFormedRasters \cup OnePixelRasters
    /\ hist = <<>>
    /\ files = [p \in Paths |-> NoFile]
    /\ tag = [p \in Paths |-> "none"]
    /\ dec = [p \in Paths |-> Nothing]
    /\ wrote = Nothing
    /\ atlas = Nothing
    /\ grid = Nothing
    /\ rendered = Nothing

Call(op, arg, after, ret) == [op |-> op, arg |-> arg, before |-> img, after |-> after, ret |-> ret]

\* img.set_max_color_value(k)
SetMaxColorValue(k) ==
    /\ Len(hist) < MaxCalls
    /\ img' = set_max_color_value(img, k)
    /\ hist' = Append(hist, Call("set_max_color_value", k, img', Nothing))
    /\ UNCHANGED <<files, tag, dec, wrote, atlas, grid, rendered>>

\* change_gradient(img, levels)
ChangeGradient(levels) ==
    /\ Len(hist) < MaxCalls
    /\ img' = change_gradient(img, levels)
    /\ hist' = Append(hist, Call("change_gradient", levels, img', img'))
    /\ UNCHANGED <<files, tag, dec, wrote, atlas, grid, rendered>>

\* netpbm_to_ascii(img)
NetpbmToAscii ==
    /\ Len(hist) < MaxCalls
    /\ LET res == netpbm_to_ascii(img)
       IN  /\ img' = res.image
           /\ hist' = Append(hist, Call("netpbm_to_ascii", Len(chars) - 1, res.image, res.ret))
    /\ UNCHANGED <<files, tag, dec, wrote, atlas, grid, rendered>>

NextQuant ==
    \/ \E k \in 1..MaxTarget : SetMaxColorValue(k)
    \/ ChangeGradient(Len(chars) - 1)
    \/ NetpbmToAscii

SpecQuant == InitQuant /\ [][NextQuant]_vars

-----------------------------------------------------------------------------
(* Properties of the transforms *)

IsCall(c, op) == c.op = op

\* C3: depth reduction idempotence.  Calling set_max_color_value with the same
\* k twice in a row leaves the Raster as the first call left it.
C3_Idempotent ==
    \A i \in 1..(Len(hist) - 1) :
        (/\ IsCall(hist[i], "set_max_color_value")
         /\ IsCall(hist[i + 1], "set_max_color_value")
         /\ hist[i].arg = hist[i + 1].arg)
            => hist[i + 1].after = hist[i].after

\* C4: valid palette indices.  For a Grayscale Raster with samples in
\* [0, max_value], change_gradient with levels = 11 leaves every sample in
\* [0, 11], and netpbm_to_ascii returns an Ascii whose every character is in
\* the palette.
C4_PaletteIndices ==
    \A i \in 1..Len(hist) :
        (Valid(hist[i].before) /\ hist[i].before.P = 2)
            => /\ (IsCall(hist[i], "change_gradient") /\ hist[i].arg = Len(chars) - 1)
                     => \A j \in 1..size(hist[i].after.M) :
                            hist[i].after.M.data[j] \in 0..(Len(chars) - 1)
               /\ IsCall(hist[i], "netpbm_to_ascii")
                     => /\ ~IsErr(hist[i].ret)
                        /\ \A j \in 1..size(hist[i].ret.M) :
                               \E n \in 1..Len(chars) : hist[i].ret.M.data[j] = chars[n]

C10_OneBit ==
    \A i \in 1..Len(hist) :
        (/\ IsCall(hist[i], "set_max_color_value") /\ hist[i].arg = 1
         /\ Valid(hist[i].before) /\ hist[i].before.P = 2)
            => /\ hist[i].after.P = 1
               /\ hist[i].after.k = 1
               /\ \A j \in 1..size(hist[i].before.M) :
                      hist[i].after.M.data[j] =
                          IF 2 * hist[i].before.M.data[j] > hist[i].before.k THEN 1 ELSE 0

-----------------------------------------------------------------------------
(* The glyph atlas and the renderer *)

NumGlyphs == 13
PadCols == 6

\* the keys of CHAR_TO_IMG: " .,-~:;=!*#$@"
symbols == <<32, 46, 44, 45, 126, 58, 59, 61, 33, 42, 35, 36, 64>>

\* a[r, c] of a 2-D array, r and c counted from 1
At(a, r, c) == a.data[(r - 1) * a.shape[2] + c]

\* np.split(a, n, axis=1) of a 2-D array: n pieces of equal width, or ValueError
np_split(a, n) ==
    IF a.shape[2] % n # 0 THEN Err("ValueError")
    ELSE LET g == a.shape[2] \div n
             H == a.shape[1]
         IN  [val |-> [i \in 1..n |->
                 array(<<H, g>>, [x \in 1..(H * g) |->
                     At(a, ((x - 1) \div g) + 1, (i - 1) * g + ((x - 1) % g) + 1)])]]

\* np.pad(M, ((0, 0), (before, after))): zero columns left and right
pad(M, before, after) ==
    LET H == M.shape[1]
        W == M.shape[2] + before + after
    IN  array(<<H, W>>, [x \in 1..(H * W) |->
            LET r == ((x - 1) \div W) + 1
                c == ((x - 1) % W) + 1
            IN  IF c <= before \/ c > before + M.shape[2] THEN 0 ELSE At(M, r, c - before)])

\* the arrays side by side (concatenation along the last axis)
hstack(arrs) ==
    IF \E i \in 1..Len(arrs) : arrs[i].shape[1] # arrs[1].shape[1] THEN Err("ValueError")
    ELSE LET H == arrs[1].shape[1]
             rows == [r \in 1..H |-> Flatten([i \in 1..Len(arrs) |-> Row(arrs[i], r).data])]
         IN  array(<<H, Len(rows[1])>>, Flatten(rows))

\* the arrays one below the other (concatenation along the first axis)
vstack(arrs) ==
    IF \E i \in 1..Len(arrs) : arrs[i].shape[2] # arrs[1].shape[2] THEN Err("ValueError")
    ELSE LET datas == [i \in 1..Len(arrs) |-> arrs[i].data]
             H == Len(Flatten(datas)) \div arrs[1].shape[2]
         IN  array(<<H, arrs[1].shape[2]>>, Flatten(datas))

\* np.block(M), M a list of lists of 2-D arrays
block(M) ==
    LET lines == [i \in 1..Len(M) |-> hstack(M[i])]
    IN  IF \E i \in 1..Len(M) : IsErr(lines[i]) THEN Err("ValueError") ELSE vstack(lines)

\* lines 19-22 of ascii.py, run at import on the bytes of resources/ascii.pgm:
\* [keys |-> the symbols, images |-> their bitmaps], or the exception
CHAR_TO_IMG(resource) ==
    LET text == decode(resource)
        parsed == parse_ascii_netpbm(split_on(text.val, {NL}))
        parts == np_split(parsed.M, NumGlyphs)
    IN  IF IsErr(text) THEN text
        ELSE IF IsErr(parsed) THEN parsed
        ELSE IF IsErr(parts) THEN parts
        ELSE [keys |-> symbols,
              images |-> [i \in 1..Min(Len(symbols), NumGlyphs) |-> pad(parts.val[i], PadCols, PadCols)]]

\* CHAR_TO_IMG[ch]
lookup(d, ch) ==
    IF \E i \in 1..Len(d.images) : d.keys[i] = ch
    THEN d.images[CHOOSE i \in 1..Len(d.images) : d.keys[i] = ch]
    ELSE Err("KeyError")

\* the list of lists of glyph images with the two indices of A swapped
glyph_rows_swapped(d, A) ==
    [i \in 1..A.shape[1] |-> [j \in 1..A.shape[2] |->
        IF j <= A.shape[1] /\ i <= A.shape[2] THEN lookup(d, At(A, j, i)) ELSE Err("IndexError")]]

\* the list M of write(): M[i][j] = CHAR_TO_IMG[A[i, j]]
glyph_rows(d, A) ==
    [i \in 1..A.shape[1] |-> [j \in 1..A.shape[2] |-> lookup(d, At(A, i, j))]]

\* the else branch of write(ascii, path, type): the raster it hands to to_png,
\* Netpbm(P=2, w=m, h=n, k=255, M=M) with n, m = M.shape, or the exception
write(d, ascii) ==
    LET A == ascii.M
        M == glyph_rows(d, A)
    IN  IF \E i \in 1..Len(M) : \E j \in 1..Len(M[i]) : IsErr(M[i][j]) THEN Err("KeyError")
        ELSE LET B == block(M)
             IN  IF IsErr(B) THEN B
                 ELSE [P |-> 2, w |-> B.shape[2], h |-> B.shape[1], k |-> 255, M |-> B]

\* the embedded glyph sheet: a plain Grayscale image of NumGlyphs glyphs side
\* by side, each gh x gw
Resources ==
    UNION { { to_netpbm(Netpbm(2, 255, array(<<gh, NumGlyphs * gw>>,
                  Pattern(gh * NumGlyphs * gw, 255, s0, st)))).bytes :
              s0 \in {0}, st \in {1, 7} } :
            gh \in 1..MaxGlyphH, gw \in 1..MaxGlyphW }

\* character grids: atlas symbols, and the letter A, which has no glyph
GridChars == symbols \o <<65>>
Grids ==
    UNION { { array(<<rows, cols>>,
                  [i \in 1..(rows * cols) |-> GridChars[((s0 + st * (i - 1)) % Len(GridChars)) + 1]]) :
              s0 \in {0, 3, 7, 12, 13}, st \in {1, 5} } :
            rows \in 1..MaxRows, cols \in 1..MaxCols }

InitGlyph ==
    /\ atlas \in {CHAR_TO_IMG(res) : res \in Resources}
    /\ grid = Nothing
    /\ rendered = Nothing
    /\ img = Nothing
    /\ hist = <<>>
    /\ files = [p \in Paths |-> NoFile]
    /\ tag = [p \in Paths |-> "none"]
    /\ dec = [p \in Paths |-> Nothing]
    /\ wrote = Nothing

\* Ascii(M=g): the caller has an Ascii image
NewAscii(g) ==
    /\ grid = Nothing
    /\ grid' = [M |-> g]
    /\ UNCHANGED <<img, files, tag, dec, wrote, hist, atlas, rendered>>

\* write(grid, path, "png")
Write ==
    /\ grid # Nothing
    /\ rendered = Nothing
    /\ ~IsErr(atlas)
    /\ rendered' = write(atlas, grid)
    /\ UNCHANGED <<img, files, tag, dec, wrote, hist, atlas, grid>>

NextGlyph ==
    \/ \E g \in Grids : NewAscii(g)
    \/ Write

SpecGlyph == InitGlyph /\ [][NextGlyph]_vars

-----------------------------------------------------------------------------
(* Properties of the renderer *)

OfAtlas(A) == \A i \in 1..size(A) : \E n \in 1..Len(symbols) : A.data[i] = symbols[n]

=============================================================================
